---- MODULE Spec2Model ----
(***************************************************************************)
(* State-machine model of cheapest_model_3.py: the weekend windows, the    *)
(* search request, the construction and enrichment of each Car, the batch  *)
(* and its upload.  Dates are proleptic Gregorian ordinals, as returned by *)
(* datetime.date.toordinal() (day 1 is 0001-01-01, a Monday).  Texts are   *)
(* sequences of one-character strings.                                     *)
(***************************************************************************)
EXTENDS Integers, Sequences, FiniteSets, TLC

(* ------------------------------ bounds --------------------------------- *)

\* Runs of main: today starts at 2019-12-27, a Friday, and takes this many
\* consecutive values; --num_future_weekends is at most MaxWeeks.
TodaySpan == 2
MaxWeeks == 2
\* The date calculation alone: today starts at 2019-12-23, a Monday, and takes
\* this many consecutive values; the lookahead is at most MaxLookahead.
DateSpan == 14
MaxLookahead == 4
\* Longest run of transient failures the search source produces in a row.
MaxSearchFails == 2
\* The retry wrapper's record of sleeps is kept up to this length; a record
\* of this length stands for "this many sleeps or more".
WaitsCap == 4
\* performance_score is kept up to this value, which stands for "this or more".
ScoreCap == 4

(* ------------------------- program constants --------------------------- *)

TodayLo == 737420
DateLo == 737416

\* The process's string hash seed (PYTHONHASHSEED), up to what it decides here:
\* which element of a two-element set of trims, and of descriptions, is in
\* the set's first slot.
HashSeedValues == 0..3

FRIDAY == 5
SUNDAY == 7
\* @retry(delay=1, backoff=2, max_delay=8); tries is left at the package's
\* default, -1: a counter that is decremented and compared with 0.
RetryDelay == 1
RetryBackoff == 2
RetryMaxDelay == 8
RetryTries == -1

None == "None"
\* A name or attribute that has not been assigned holds Unset, an assigned one
\* holds Set(v); v is read back as x[1].
Unset == <<>>
Set(v) == <<v>>

(* ------------------------------- texts --------------------------------- *)

UpperChars == <<"A","B","C","D","E","F","G","H","I","J","K","L","M",
                "N","O","P","Q","R","S","T","U","V","W","X","Y","Z">>
LowerChars == <<"a","b","c","d","e","f","g","h","i","j","k","l","m",
                "n","o","p","q","r","s","t","u","v","w","x","y","z">>

\* A character outside string.printable (the BEL control character).
BEL == "<BEL>"

\* string.printable, restricted to the characters the pages use.
string_printable ==
  {UpperChars[k] : k \in 1..26} \cup {LowerChars[k] : k \in 1..26}
    \cup {" ", "!", "3", "-"}

\* str.lower() on one character.
LowerChar(c) ==
  IF \E k \in 1..26 : UpperChars[k] = c
    THEN LowerChars[CHOOSE k \in 1..26 : UpperChars[k] = c]
    ELSE c

\* str.lower()
lower(s) == [k \in 1..Len(s) |-> LowerChar(s[k])]

\* printable(full_string): the characters of full_string that are printable
RECURSIVE printable(_)
printable(full_string) ==
  IF full_string = <<>> THEN <<>>
  ELSE (IF Head(full_string) \in string_printable
          THEN <<Head(full_string)>> ELSE <<>>) \o printable(Tail(full_string))

\* The positions at which pattern occurs in s (re.findall of a literal).
FindAll(pattern, s) ==
  {k \in 1..(Len(s) - Len(pattern) + 1) :
      SubSeq(s, k, k + Len(pattern) - 1) = pattern}

SetMin(S) == CHOOSE x \in S : \A y \in S : x <= y

KwPerformance == <<"p","e","r","f","o","r","m","a","n","c","e">>
KwStandard == <<"s","t","a","n","d","a","r","d">>
KwLong == <<"l","o","n","g">>

\* The alternatives of r'(performance)|(standard)|(long)', in order.
TrimKeywords == <<KwPerformance, KwStandard, KwLong>>
TrimNames == <<"performance", "standard", "long">>

\* re.findall(r'(performance)|(standard)|(long)', label.lower())[0], reduced
\* to its one non-empty group: the alternative matching leftmost in the
\* label, None when nothing matches.
LabelTrim(label) ==
  LET low == lower(label)
      hits == {a \in 1..3 : FindAll(TrimKeywords[a], low) # {}}
      pos(a) == SetMin(FindAll(TrimKeywords[a], low))
  IN  IF hits = {} THEN None
      ELSE TrimNames[CHOOSE a \in hits :
                       \A b \in hits : pos(a) < pos(b) \/ (pos(a) = pos(b) /\ a <= b)]

\* trims: one entry per vehicleLabel fragment whose text matches, in
\* document order.
RECURSIVE TrimsOf(_)
TrimsOf(labels) ==
  IF labels = <<>> THEN <<>>
  ELSE (IF LabelTrim(Head(labels)) = None THEN <<>> ELSE <<LabelTrim(Head(labels))>>)
         \o TrimsOf(Tail(labels))

Range(s) == {s[k] : k \in 1..Len(s)}

\* any([re.findall(r'performance', x.lower()) for x in description]): x runs
\* over the elements of description, which is a str, so over its characters.
performance_description_of(description) ==
  \E k \in 1..Len(description) : FindAll(KwPerformance, lower(<<description[k]>>)) # {}

\* Whether the text contains the keyword in any letter case.
ContainsPerformance(text) == FindAll(KwPerformance, lower(text)) # {}

\* (\d+ mi|Unlimited)
Allowances == {"200 mi", "1000 mi", "Unlimited"}

\* re.findall(r'Distance includedDay(..)Week(..)Month(..)', reservation_box)
\* on a box given as its sequence of text pieces: the matches, leftmost first.
allowed_mileage_of(box) ==
  LET at == {k \in 1..(Len(box) - 6) :
               /\ box[k] = "Distance included"
               /\ box[k+1] = "Day"   /\ box[k+2] \in Allowances
               /\ box[k+3] = "Week"  /\ box[k+4] \in Allowances
               /\ box[k+5] = "Month" /\ box[k+6] \in Allowances}
  IN  IF at = {} THEN <<>>
      ELSE LET k == SetMin(at) IN << <<box[k+2], box[k+4], box[k+6]>> >>

(* ------------------------------- dates --------------------------------- *)

\* date.isoweekday(): Monday is 1, Sunday is 7
isoweekday(date) == ((date - 1) % 7) + 1

\* day_of_week(weekday, date)
day_of_week(weekday, date) == date + (weekday - isoweekday(date))

\* dates_in_scope without lines 34-35: today is never moved to the next week.
dates_in_scope_noshift(weeks_ahead, now) ==
  [k \in 1..(IF weeks_ahead > 0 THEN weeks_ahead ELSE 0) |-> now + 7 * (k - 1)]

\* dates_in_scope(weeks_ahead) with datetime.date.today() = now
dates_in_scope(weeks_ahead, now) ==
  LET shifted == IF day_of_week(FRIDAY, now) < now THEN now + 7 ELSE now
  IN  [k \in 1..(IF weeks_ahead > 0 THEN weeks_ahead ELSE 0) |-> shifted + 7 * (k - 1)]

\* The civil date <<year, month, day>> of an ordinal.
civil(date) ==
  LET z   == date + 305          \* days since 0000-03-01
      era == z \div 146097
      doe == z - era * 146097
      yoe == (doe - doe \div 1460 + doe \div 36524 - doe \div 146096) \div 365
      doy == doe - (365 * yoe + yoe \div 4 - yoe \div 100)
      mp  == (5 * doy + 2) \div 153
      d   == doy - (153 * mp + 2) \div 5 + 1
      m   == IF mp < 10 THEN mp + 3 ELSE mp - 9
      y   == yoe + era * 400 + (IF m <= 2 THEN 1 ELSE 0)
  IN  <<y, m, d>>

\* date.strftime('%m_%d_%Y') and date.strftime('%m/%d/%Y'): month, day, year
strftime_mdY(date) == <<civil(date)[2], civil(date)[3], civil(date)[1]>>

(* ------------------------- the retry decorator ------------------------- *)

Min(a, b) == IF a <= b THEN a ELSE b

\* The wrapper's locals as a decorated function is called: _tries, _delay, the
\* sleeps made so far, and whether the wrapper is in time.sleep.
retry_start ==
  [tries |-> RetryTries, delay |-> RetryDelay, waits |-> <<>>, asleep |-> FALSE]

\* "_tries -= 1; if not _tries: raise"
retry_gives_up(r) == r.tries - 1 = 0

\* "time.sleep(_delay); _delay *= backoff; _delay = min(_delay, max_delay)":
\* the wrapper goes to sleep, with _delay already set for the next failure.
\* A negative _tries never reaches 0 again and is kept as it is.
retry_after_failure(r) ==
  [tries |-> IF r.tries < 0 THEN r.tries ELSE r.tries - 1,
   delay |-> Min(r.delay * RetryBackoff, RetryMaxDelay),
   waits |-> IF Len(r.waits) < WaitsCap THEN Append(r.waits, r.delay) ELSE r.waits,
   asleep |-> TRUE]

\* The wrapper of create_dataset, which runs inside an attempt of
\* create_or_assert_dataset: not running, and as the call starts.
create_idle == [active |-> FALSE, tries |-> RetryTries, delay |-> RetryDelay]
create_start == [create_idle EXCEPT !.active = TRUE]

\* The same wrapper after a failed attempt that is retried.
create_after_failure(r) ==
  [r EXCEPT !.tries = IF @ < 0 THEN @ ELSE @ - 1,
            !.delay = Min(@ * RetryBackoff, RetryMaxDelay)]

\* time.sleep(d) made by the wrapper of a nested call: it joins the sleeps of
\* the running outer call, whose _tries and _delay are untouched.
nested_sleep(r, d) ==
  [r EXCEPT !.waits = IF Len(@) < WaitsCap THEN Append(@, d) ELSE @,
            !.asleep = TRUE]

(* ------------------------- the detail pages ---------------------------- *)

TxtPerformance == <<"P","e","r","f","o","r","m","a","n","c","e">>
TxtStandard == <<"S","t","a","n","d","a","r","d">>
TxtLongRange == <<"L","o","n","g"," ","R","a","n","g","e">>
TxtPerfCaps == <<"P","E","R","F","O","R","M","A","N","C","E","!">>
TxtFast == <<"f","a","s","t">>
TxtQuiet == <<"q","u","i","e","t">>
TxtNice == <<"n","i",BEL,"c","e">>
BoxMileage == <<"Distance included", "Day", "200 mi", "Week", "1000 mi",
                "Month", "Unlimited">>
BoxOther == <<"Sign up to book">>

\* The listings the search source can return, by vehicle url.  json says what
\* the listing's dictionary is: "ok" has every key Car.__init__ reads, "bad"
\* lacks one (Car.__init__ raises), "empty" is {}.  labels, descriptions and
\* boxes are the texts of the page's vehicleLabel,
\* vehicleDetails-descriptionText and reservationBox fragments, in document
\* order.
Catalogue ==
  << [json |-> "ok", labels |-> <<TxtPerformance>>,
      descriptions |-> <<TxtPerfCaps>>, boxes |-> <<BoxMileage>>],
     [json |-> "ok", labels |-> <<TxtStandard, TxtPerformance>>,
      descriptions |-> <<TxtFast, TxtQuiet>>, boxes |-> <<BoxOther>>],
     [json |-> "ok", labels |-> <<TxtPerformance>>,
      descriptions |-> <<TxtNice>>, boxes |-> <<>>],
     [json |-> "ok", labels |-> <<TxtLongRange>>,
      descriptions |-> <<>>, boxes |-> <<BoxMileage>>],
     [json |-> "bad", labels |-> <<>>, descriptions |-> <<>>, boxes |-> <<>>],
     [json |-> "empty", labels |-> <<>>, descriptions |-> <<>>, boxes |-> <<>>] >>

Urls == DOMAIN Catalogue

\* vehicle_url of a Car built without car_json and without a url: None.
NoUrl == 0

\* The results the search source returns under 'list'.
ListingLists ==
  {<<>>} \cup {<<a>> : a \in Urls} \cup {<<a, b>> : a \in Urls, b \in Urls}

\* The distinct elements of xs, in the order of their first occurrence.
RECURSIVE Distinct(_)
Distinct(xs) ==
  IF xs = <<>> THEN <<>>
  ELSE LET front == Distinct(SubSeq(xs, 1, Len(xs) - 1))
           last == xs[Len(xs)]
       IN  IF last \in Range(front) THEN front ELSE Append(front, last)

\* set(xs).pop() for a non-empty xs: the element in the set's first slot,
\* which the hashes of the elements decide, so the process's hash seed.  The
\* same set pops the same element for as long as the process runs.  salt tells
\* the pops of different attributes apart.
set_pop(xs, seed, salt) ==
  LET elems == Distinct(xs)
  IN  elems[((seed \div salt) % Len(elems)) + 1]

(* -------------------------------- Car ---------------------------------- *)

\* Car.__init__ up to the call of get_detailed_listing.  Of the attributes
\* copied from car_json only vehicle_url is kept.
new_car(url) ==
  [vehicle_url |-> IF Catalogue[url].json = "empty" THEN Set(NoUrl) ELSE Set(url),
   performance_score |-> 0,
   trim |-> Unset, performance_trim |-> Unset,
   description |-> Unset, performance_description |-> Unset,
   day_miles |-> Unset, week_miles |-> Unset, month_miles |-> Unset]

AddOne(n) == IF n < ScoreCap THEN n + 1 ELSE n

\* What a run of get_detailed_listing reads off the page (lines 119-144): the
\* trim and the description the pops select, the keyword test on the
\* description, and the mileage match on the reservation box.  A fragment
\* that is absent is reported as such: its pop raises KeyError.
parse_page(page, seed) ==
  LET trims == TrimsOf(page.labels)
      descriptions == [k \in DOMAIN page.descriptions |->
                         printable(page.descriptions[k])]
      description == IF descriptions # <<>> THEN set_pop(descriptions, seed, 2)
                     ELSE <<>>
  IN  [trim |-> IF trims # <<>> THEN set_pop(trims, seed, 1) ELSE None,
       has_description |-> descriptions # <<>>,
       description |-> description,
       performance_description |-> performance_description_of(description),
       has_box |-> page.boxes # <<>>,
       allowed_mileage |-> IF page.boxes # <<>>
                             THEN allowed_mileage_of(set_pop(page.boxes, seed, 1))
                             ELSE <<>>]

\* parse_page of every page of the catalogue, under every hash seed.
Parsed ==
  [u \in Urls |-> [seed \in HashSeedValues |-> parse_page(Catalogue[u], seed)]]

\* One run of the body of get_detailed_listing on self.  response is "error"
\* when requests.get raises.  The result is self as the run leaves it and how
\* the run ended: "returned", or the exception it raised (of the assert, of
\* requests.get, or of pop on an empty set).
get_detailed_listing(self, response, seed) ==
  IF self.vehicle_url = Set(NoUrl)
    THEN [self |-> self, ended |-> "AssertionError"]
  ELSE IF response = "error"
    THEN [self |-> self, ended |-> "RequestException"]
  ELSE
    LET page == Parsed[self.vehicle_url[1]][seed]
        performance_trim == (page.trim = "performance")
        s1 == [self EXCEPT !.trim = Set(page.trim),
                 !.performance_trim = Set(performance_trim),
                 !.performance_score = IF performance_trim THEN AddOne(@) ELSE @]
        s2 == [s1 EXCEPT !.description = Set(page.description),
                 !.performance_description = Set(page.performance_description),
                 !.performance_score =
                    IF page.performance_description THEN AddOne(@) ELSE @]
        s3 == IF page.allowed_mileage # <<>>
                THEN [s2 EXCEPT !.day_miles = Set(page.allowed_mileage[1][1]),
                                !.week_miles = Set(page.allowed_mileage[1][2]),
                                !.month_miles = Set(page.allowed_mileage[1][3])]
                ELSE s2
    IN  IF ~page.has_description THEN [self |-> s1, ended |-> "KeyError"]
        ELSE IF ~page.has_box THEN [self |-> s2, ended |-> "KeyError"]
        ELSE [self |-> s3, ended |-> "returned"]

\* vars(car).keys(): the attributes that have been assigned.
vars_keys(c) == {k \in DOMAIN c : k = "performance_score" \/ c[k] # Unset}

(* -------------------------------- state -------------------------------- *)

\* None as the value of a call that returns the search's JSON object.
ReturnedNone == [none |-> TRUE, has_list |-> FALSE, list |-> <<>>]

VARIABLES
  hashseed,             \* the process's string hash seed
  today,                \* datetime.date.today()
  num_future_weekends,  \* request.num_future_weekends
  pc,                   \* where main is
  main_exit,            \* how main ended
  dates,                \* dates_in_scope(...), the sequence main iterates
  w,                    \* position of the current window in dates
  search_fails,         \* transient failures the search source starts the call with
  rt,                   \* the running retry wrapper's locals
  ret,                  \* what get_turo_listings returned
  search_waits,         \* the sleeps made during that call of get_turo_listings
  listings,
  site,                 \* which Car(...) call runs: "columns" (line 211) or "loop"
  i,                    \* position of the current listing in listings
  car,                  \* the Car under construction
  attempt_result,       \* how the last run of get_detailed_listing ended
  rental, column_names, df,
  enriched,             \* positions whose Car(listing) of the loop returned
  searched,             \* windows for which get_turo_listings was called
  empty_at,             \* windows whose search returned an empty list
  dataset_exists,       \* the sink: whether the dataset exists
  rt_create,            \* the locals of create_dataset's own retry wrapper
  sink,                 \* the sink: table id -> the rows last loaded
  uploaded_tables

vars == <<hashseed, today, num_future_weekends, pc, main_exit, dates, w, search_fails,
          rt, ret, search_waits, listings, site, i, car, attempt_result, rental,
          column_names, df, enriched, searched, empty_at, dataset_exists, rt_create,
          sink, uploaded_tables>>

start == day_of_week(FRIDAY, dates[w])
end == day_of_week(SUNDAY, dates[w])
table_id == strftime_mdY(start)

Init ==
  /\ hashseed \in HashSeedValues
  /\ today \in TodayLo..(TodayLo + TodaySpan - 1)
  /\ num_future_weekends \in 0..MaxWeeks
  /\ pc = "main"
  /\ main_exit = "running"
  /\ dates = <<>>
  /\ w = 1
  /\ search_fails = 0
  /\ rt = retry_start
  /\ ret = ReturnedNone
  /\ search_waits = <<>>
  /\ listings = <<>>
  /\ site = "columns"
  /\ i = 1
  /\ car = Unset
  /\ attempt_result = "none"
  /\ rental = Unset
  /\ column_names = {}
  /\ df = <<>>
  /\ enriched = <<>>
  /\ searched = {}
  /\ empty_at = {}
  /\ dataset_exists = FALSE
  /\ rt_create = create_idle
  /\ sink = << >>
  /\ uploaded_tables = <<>>

\* An exception leaves main.
Crash ==
  /\ pc' = "done"
  /\ main_exit' = "exception"

(* ------------------------------- main ---------------------------------- *)

\* Lines 184-193: the zip code is resolved and the windows are computed.
MainStart ==
  /\ pc = "main"
  /\ \E zip_ok \in BOOLEAN :
       IF zip_ok
         THEN /\ dates' = dates_in_scope(num_future_weekends, today)
              /\ pc' = "window"
              /\ UNCHANGED main_exit
         ELSE /\ pc' = "done"
              /\ main_exit' = "invalid_zip"
              /\ UNCHANGED dates
  /\ UNCHANGED <<hashseed, today, num_future_weekends, search_waits, w, search_fails, rt, ret,
                 listings, site, i, car, attempt_result, rental, column_names,
                 df, enriched, searched, empty_at, dataset_exists, rt_create, sink,
                 uploaded_tables>>

\* Lines 193-198 and 238: the next window is taken, or the summary is printed.
WindowBegin ==
  /\ pc = "window"
  /\ IF w > Len(dates)
       THEN /\ pc' = "done"
            /\ main_exit' = "summary"
            /\ UNCHANGED <<search_fails, rt, searched>>
       ELSE /\ \E f \in 0..MaxSearchFails : search_fails' = f
            /\ rt' = retry_start
            /\ searched' = searched \cup {w}
            /\ pc' = "search"
            /\ UNCHANGED main_exit
  /\ UNCHANGED <<hashseed, today, num_future_weekends, search_waits, dates, w, ret, listings, site, i,
                 car, attempt_result, rental, column_names, df, enriched,
                 empty_at, dataset_exists, rt_create, sink, uploaded_tables>>

\* The body of get_turo_listings: an exception of requests.get or of
\* result.json() is caught and logged, and the function ends without a
\* return statement.
get_turo_listings(response) ==
  IF response.error
    THEN [raised |-> FALSE, value |-> ReturnedNone]
    ELSE [raised |-> FALSE,
          value |-> [none |-> FALSE, has_list |-> response.has_list,
                     list |-> response.list]]

\* What the search source answers to the attempt being made.
SearchResponses ==
  IF Len(rt.waits) < search_fails
    THEN {[error |-> TRUE, has_list |-> FALSE, list |-> <<>>]}
    ELSE {[error |-> FALSE, has_list |-> FALSE, list |-> <<>>]}
           \cup {[error |-> FALSE, has_list |-> TRUE, list |-> l] : l \in ListingLists}

\* Lines 39-82: one attempt of get_turo_listings under its retry wrapper.
SearchAttempt ==
  /\ pc = "search"
  /\ ~rt.asleep
  /\ \E response \in SearchResponses :
       LET out == get_turo_listings(response) IN
         IF out.raised
           THEN IF retry_gives_up(rt)
                  THEN Crash /\ UNCHANGED <<rt, ret, search_waits>>
                  ELSE /\ rt' = retry_after_failure(rt)
                       /\ UNCHANGED <<pc, main_exit, ret, search_waits>>
           ELSE /\ ret' = out.value
                /\ search_waits' = rt.waits
                /\ rt' = retry_start
                /\ pc' = "subscript"
                /\ UNCHANGED main_exit
  /\ UNCHANGED <<hashseed, today, num_future_weekends, dates, w, search_fails, listings,
                 site, i, car, attempt_result, rental, column_names, df,
                 enriched, searched, empty_at, dataset_exists, rt_create, sink,
                 uploaded_tables>>

\* Lines 204-208: ['list'] of the returned value, and the test for no listings.
MainSubscript ==
  /\ pc = "subscript"
  /\ IF ret.none
       THEN Crash /\ UNCHANGED <<listings, site, i, empty_at>>
     ELSE IF ~ret.has_list
       THEN Crash /\ UNCHANGED <<listings, site, i, empty_at>>
     ELSE /\ listings' = ret.list
          /\ IF ret.list = <<>>
               THEN /\ pc' = "done"
                    /\ main_exit' = "no_listings"
                    /\ empty_at' = empty_at \cup {w}
                    /\ UNCHANGED <<site, i>>
               ELSE /\ pc' = "car_init"
                    /\ site' = "columns"
                    /\ i' = 1
                    /\ UNCHANGED <<main_exit, empty_at>>
  /\ UNCHANGED <<hashseed, today, num_future_weekends, search_waits, dates, w, search_fails,
                 rt, ret, car, attempt_result, rental, column_names, df,
                 enriched, searched, dataset_exists, rt_create, sink, uploaded_tables>>

\* Lines 88-106: Car.__init__ up to the call of get_detailed_listing, called
\* at line 211 (site "columns") or at line 220 (site "loop", inside try).
CarInit ==
  /\ pc = "car_init"
  /\ IF Catalogue[listings[i]].json = "bad"
       THEN /\ IF site = "columns"
                 THEN Crash
                 ELSE pc' = "append" /\ UNCHANGED main_exit
            /\ UNCHANGED <<car, rt, attempt_result>>
       ELSE /\ car' = new_car(listings[i])
            /\ rt' = retry_start
            /\ attempt_result' = "none"
            /\ pc' = "car_detail"
            /\ UNCHANGED main_exit
  /\ UNCHANGED <<hashseed, today, num_future_weekends, search_waits, dates, w, search_fails, ret,
                 listings, site, i, rental, column_names, df, enriched,
                 searched, empty_at, dataset_exists, rt_create, sink, uploaded_tables>>

\* Car(...) has returned the object c to main.
CarReturned(c, was_enriched) ==
  IF site = "columns"
    THEN /\ column_names' = vars_keys(c)
         /\ df' = <<>>
         /\ enriched' = <<>>
         /\ site' = "loop"
         /\ i' = 1
         /\ pc' = "car_init"
         /\ UNCHANGED rental
    ELSE /\ rental' = Set(c)
         /\ enriched' = IF was_enriched THEN Append(enriched, i) ELSE enriched
         /\ pc' = "append"
         /\ UNCHANGED <<column_names, df, site, i>>

\* Lines 107-147: one attempt of get_detailed_listing under its retry wrapper,
\* and Car.__init__'s except clause when the wrapper raises.
DetailAttempt ==
  /\ pc = "car_detail"
  /\ ~rt.asleep
  /\ \E response \in {"error", "page"} :
       LET out == get_detailed_listing(car, response, hashseed) IN
         /\ car' = out.self
         /\ attempt_result' = out.ended
         /\ IF out.ended # "returned" /\ ~retry_gives_up(rt)
              THEN /\ rt' = retry_after_failure(rt)
                   /\ UNCHANGED <<pc, site, i, rental, column_names, df, enriched>>
              ELSE /\ CarReturned(out.self, out.ended = "returned")
                   /\ rt' = retry_start
  /\ UNCHANGED <<hashseed, today, num_future_weekends, search_waits, main_exit, dates, w, search_fails,
                 ret, listings, searched, empty_at, dataset_exists, rt_create, sink,
                 uploaded_tables>>

\* dict(vars(rental)) with row['weekend'] = start
row_of(c, weekend) == [c |-> c, weekend |-> weekend]

\* Lines 223-225 and the loop's next step: the row of rental is appended.
AppendRow ==
  /\ pc = "append"
  /\ IF rental = Unset
       THEN Crash /\ UNCHANGED <<df, i, rt>>
       ELSE /\ df' = Append(df, row_of(rental[1], start))
            /\ IF i < Len(listings)
                 THEN /\ i' = i + 1
                      /\ pc' = "car_init"
                      /\ UNCHANGED rt
                 ELSE /\ pc' = "dataset"
                      /\ rt' = retry_start
                      /\ UNCHANGED i
            /\ UNCHANGED main_exit
  /\ UNCHANGED <<hashseed, today, num_future_weekends, search_waits, dates, w, search_fails, ret,
                 listings, site, car, attempt_result, rental, column_names,
                 enriched, searched, empty_at, dataset_exists, rt_create, sink,
                 uploaded_tables>>

\* Lines 159-170 and 230-232: bigquery.Client(), which may raise, and one
\* attempt of create_or_assert_dataset up to its return or its call of
\* create_dataset: list_datasets raises, or the dataset is listed, or it is not
\* and create_dataset is called (line 165 or 168), whose wrapper starts afresh.
create_or_assert_dataset ==
  /\ pc = "dataset"
  /\ ~rt.asleep
  /\ ~rt_create.active
  /\ \E response \in {"no_client", "error", "ok"} :
       IF response = "no_client"
         THEN /\ rt = retry_start
              /\ Crash
              /\ UNCHANGED <<rt, rt_create>>
       ELSE IF response = "error"
         THEN /\ IF retry_gives_up(rt)
                   THEN Crash /\ UNCHANGED rt
                   ELSE /\ rt' = retry_after_failure(rt)
                        /\ UNCHANGED <<pc, main_exit>>
              /\ UNCHANGED rt_create
       ELSE IF dataset_exists
         THEN /\ rt' = retry_start
              /\ pc' = "upload"
              /\ UNCHANGED <<main_exit, rt_create>>
         ELSE /\ rt_create' = create_start
              /\ UNCHANGED <<pc, main_exit, rt>>
  /\ UNCHANGED <<hashseed, today, num_future_weekends, search_waits, dates, w, search_fails, ret,
                 listings, site, i, car, attempt_result, rental, column_names,
                 df, enriched, searched, empty_at, dataset_exists, sink,
                 uploaded_tables>>

\* Lines 149-156: one attempt of create_dataset, inside the running attempt of
\* create_or_assert_dataset.  When client.create_dataset raises, create_dataset's
\* own wrapper sleeps and calls it again: list_datasets is not called again and
\* the outer wrapper's _delay stays.  On its return create_or_assert_dataset
\* returns too (line 169).
create_dataset ==
  /\ pc = "dataset"
  /\ ~rt.asleep
  /\ rt_create.active
  /\ \E response \in {"error", "ok"} :
       IF response = "error"
         THEN IF retry_gives_up(rt_create)
                THEN /\ rt_create' = create_idle
                     /\ IF retry_gives_up(rt)
                          THEN Crash /\ UNCHANGED rt
                          ELSE /\ rt' = retry_after_failure(rt)
                               /\ UNCHANGED <<pc, main_exit>>
                     /\ UNCHANGED dataset_exists
                ELSE /\ rt_create' = create_after_failure(rt_create)
                     /\ rt' = nested_sleep(rt, rt_create.delay)
                     /\ UNCHANGED <<pc, main_exit, dataset_exists>>
         ELSE /\ dataset_exists' = TRUE
              /\ rt_create' = create_idle
              /\ rt' = retry_start
              /\ pc' = "upload"
              /\ UNCHANGED main_exit
  /\ UNCHANGED <<hashseed, today, num_future_weekends, search_waits, dates, w, search_fails, ret,
                 listings, site, i, car, attempt_result, rental, column_names,
                 df, enriched, searched, empty_at, sink, uploaded_tables>>

\* load_table_from_dataframe with WRITE_TRUNCATE: the table's rows are replaced.
load_table(tables, id, rows) == (id :> rows) @@ tables

\* uploaded_tables = [...] in place of the append: the earlier identifiers go.
append_uploaded_only(tables, id) == <<id>>

\* uploaded_tables.append(...)
append_uploaded(tables, id) == Append(tables, id)

\* Lines 173-180 and 236: one attempt of upload_table; on its return the
\* identifier is recorded and the loop goes to the next window.  A failed
\* attempt may have loaded the table before it raised.
UploadAttempt ==
  /\ pc = "upload"
  /\ ~rt.asleep
  /\ \E response \in {"error", "error_after_load", "ok"} :
       /\ sink' = IF response = "error" THEN sink ELSE load_table(sink, table_id, df)
       /\ IF response # "ok"
            THEN IF retry_gives_up(rt)
                   THEN Crash /\ UNCHANGED <<rt, w, uploaded_tables>>
                   ELSE /\ rt' = retry_after_failure(rt)
                        /\ UNCHANGED <<pc, main_exit, w, uploaded_tables>>
            ELSE /\ uploaded_tables' = append_uploaded(uploaded_tables, table_id)
                 /\ w' = w + 1
                 /\ pc' = "window"
                 /\ rt' = retry_start
                 /\ UNCHANGED main_exit
  /\ UNCHANGED <<hashseed, today, num_future_weekends, search_waits, dates, search_fails, ret,
                 listings, site, i, car, attempt_result, rental, column_names,
                 df, enriched, searched, empty_at, dataset_exists, rt_create>>

\* time.sleep(_delay) of the retry wrapper returns: the next attempt is due.
RetrySleep ==
  /\ rt.asleep
  /\ rt' = [rt EXCEPT !.asleep = FALSE]
  /\ UNCHANGED <<hashseed, today, num_future_weekends, pc, main_exit, dates,
                 w, search_fails, ret, search_waits, listings, site, i, car,
                 attempt_result, rental, column_names, df, enriched, searched,
                 empty_at, dataset_exists, rt_create, sink, uploaded_tables>>

Next ==
  \/ MainStart
  \/ WindowBegin
  \/ SearchAttempt
  \/ MainSubscript
  \/ CarInit
  \/ DetailAttempt
  \/ AppendRow
  \/ create_or_assert_dataset
  \/ create_dataset
  \/ UploadAttempt
  \/ RetrySleep

Spec == Init /\ [][Next]_vars

\* main is one thread that runs whenever it can take a step.
FairSpec == Spec /\ WF_vars(Next)

(* ----------------------- the date calculation alone -------------------- *)

\* main up to the loop's header, for every weekday of today and every
\* lookahead; the rest of the state is as Init leaves it.
DateInit ==
  /\ hashseed = 0
  /\ today \in DateLo..(DateLo + DateSpan - 1)
  /\ num_future_weekends \in 0..MaxLookahead
  /\ pc = "main"
  /\ main_exit = "running"
  /\ dates = <<>>
  /\ w = 1
  /\ search_fails = 0
  /\ rt = retry_start
  /\ ret = ReturnedNone
  /\ search_waits = <<>>
  /\ listings = <<>>
  /\ site = "columns"
  /\ i = 1
  /\ car = Unset
  /\ attempt_result = "none"
  /\ rental = Unset
  /\ column_names = {}
  /\ df = <<>>
  /\ enriched = <<>>
  /\ searched = {}
  /\ empty_at = {}
  /\ dataset_exists = FALSE
  /\ rt_create = create_idle
  /\ sink = << >>
  /\ uploaded_tables = <<>>

\* Lines 193-195: the loop takes the next date and computes start and end.
NextDate ==
  /\ pc = "window"
  /\ w <= Len(dates)
  /\ w' = w + 1
  /\ UNCHANGED <<hashseed, today, num_future_weekends, pc, main_exit, dates,
                 search_fails, rt, ret, search_waits, listings, site, i, car,
                 attempt_result, rental, column_names, df, enriched, searched,
                 empty_at, dataset_exists, rt_create, sink, uploaded_tables>>

DateNext ==
  \/ MainStart
  \/ NextDate

DateSpec == DateInit /\ [][DateNext]_vars

(* ------------------------------- claims -------------------------------- *)

\* start and end as main computes them for the k-th date of the loop.
StartOf(k) == day_of_week(FRIDAY, dates[k])
EndOf(k) == day_of_week(SUNDAY, dates[k])

\* The weekday of an ordinal, counted from Monday = 0.
DaysAfterMonday(date) == (date - 1) % 7

\* C1: for every lookahead N >= 0 and every today, the loop of main gets
\* exactly N windows; every window starts on a Friday and ends two days later,
\* on the Sunday of the same week; each start is exactly one week after the
\* one before, so the starts strictly increase; and the first start is not
\* before today.
C1_Windows ==
  pc # "main" /\ main_exit = "running" =>
    /\ Len(dates) = num_future_weekends
    /\ \A k \in 1..Len(dates) :
         /\ DaysAfterMonday(StartOf(k)) = 4
         /\ DaysAfterMonday(EndOf(k)) = 6
         /\ EndOf(k) = StartOf(k) + 2
         /\ k > 1 => StartOf(k) = StartOf(k - 1) + 7
    /\ Len(dates) > 0 => StartOf(1) >= today /\ StartOf(1) <= today + 6

\* The loop has run through three windows or more, from a Saturday: the
\* first window is the next week's.
C1_Witness ==
  /\ pc = "window"
  /\ Len(dates) >= 3
  /\ w = Len(dates) + 1
  /\ DaysAfterMonday(today) = 5
  /\ StartOf(1) = today + 6
  /\ StartOf(3) = today + 20

\* C2: when the search request fails transiently twice and then succeeds,
\* get_turo_listings returns the result, not None, after sleeps of 1 and 2
\* (each sleep at most 8).
C2_RetriedSearchReturnsResult ==
  pc = "subscript" /\ search_fails = 2 =>
    /\ ~ret.none
    /\ search_waits = <<RetryDelay, RetryDelay * RetryBackoff>>
    /\ \A k \in 1..Len(search_waits) : search_waits[k] <= RetryMaxDelay

\* C3: every run of main eventually finishes, whatever the sources answer:
\* no call is retried without end.
C3_MainFinishes == <>(pc = "done")

\* The page of the Car under construction.
HasCar == DOMAIN car # {}
CarPage == Catalogue[car.vehicle_url[1]]

\* C4: a run of get_detailed_listing on a fetched page that has a
\* description fragment and no reservationBox fragment returns, and leaves
\* the three mileage allowances set to an explicit unknown value.
C4_MissingMileageIsUnknown ==
  (/\ attempt_result \in {"KeyError", "returned"}
   /\ CarPage.descriptions # <<>>
   /\ CarPage.boxes = <<>>) =>
    /\ attempt_result = "returned"
    /\ car.day_miles = Set("unknown")
    /\ car.week_miles = Set("unknown")
    /\ car.month_miles = Set("unknown")

\* C5: the batch handed to upload_table has exactly one row per listing
\* whose Car was built and enriched, in the listings' order, and no other row.
C5_BatchHasOneRowPerEnriched ==
  pc \in {"dataset", "upload"} =>
    [k \in 1..Len(df) |-> df[k].c.vehicle_url[1]]
      = [k \in 1..Len(enriched) |-> listings[enriched[k]]]

\* C6: when main has ended without an exception, every window after one whose
\* search returned an empty list has been searched too.
C6_EmptyWindowOnlySkipped ==
  pc = "done" /\ main_exit # "exception" =>
    \A v \in empty_at : \A u \in (v + 1)..Len(dates) : u \in searched

\* C7: the performance_score of a Car is 0, 1 or 2, during and after any
\* number of attempts of get_detailed_listing.
C7_ScoreInRange ==
  HasCar => car.performance_score \in {0, 1, 2}

\* C8: after a run of get_detailed_listing that returned, performance_description
\* tells whether the description contains "performance" in any letter case,
\* and the score counts it (with the trim's point).
C8_DescriptionKeyword ==
  attempt_result = "returned" =>
    LET has == ContainsPerformance(car.description[1]) IN
      /\ car.performance_description = Set(has)
      /\ car.performance_score >= (IF has THEN 1 ELSE 0)
                                  + (IF car.trim = Set("performance") THEN 1 ELSE 0)

\* C9: after a run of get_detailed_listing that returned, trim is the first
\* vehicleLabel match in document order and description is the first
\* description fragment, whatever the process's hash seed: every run on the
\* same page selects the same values.
C9_FirstInDocumentOrder ==
  attempt_result = "returned" =>
    LET trims == TrimsOf(CarPage.labels) IN
      /\ car.trim = Set(IF trims = <<>> THEN None ELSE trims[1])
      /\ car.description = Set(printable(CarPage.descriptions[1]))

IsPrefix(s, t) == Len(s) <= Len(t) /\ SubSeq(t, 1, Len(s)) = s

\* C10: uploaded_tables only grows, by the identifier of the window whose
\* upload_table has just returned with the table holding that window's batch;
\* the k-th identifier is the k-th window's and the identifiers differ; and no
\* step changes the table of an identifier already recorded.
C10_AppendOnly ==
  [][ /\ IsPrefix(uploaded_tables, uploaded_tables')
      /\ \A k \in 1..Len(uploaded_tables) :
           /\ uploaded_tables[k] \in DOMAIN sink
           /\ uploaded_tables[k] \in DOMAIN sink'
           /\ sink'[uploaded_tables[k]] = sink[uploaded_tables[k]]
      /\ uploaded_tables' # uploaded_tables =>
           /\ pc = "upload"
           /\ uploaded_tables' = Append(uploaded_tables, table_id)
           /\ table_id \in DOMAIN sink'
           /\ sink'[table_id] = df
      /\ \A k \in 1..Len(uploaded_tables') :
           /\ uploaded_tables'[k] = strftime_mdY(StartOf(k))
           /\ \A j \in 1..(k - 1) : uploaded_tables'[j] # uploaded_tables'[k]
    ]_vars

\* Two windows were uploaded, the second after a failed attempt that had
\* loaded its table: both identifiers are recorded, in window order, and the
\* first window's table still holds its rows.
C10_Witness ==
  /\ Len(uploaded_tables) = 2
  /\ uploaded_tables[1] = strftime_mdY(StartOf(1))
  /\ uploaded_tables[2] = strftime_mdY(StartOf(2))
  /\ pc = "done"
  /\ main_exit = "summary"
  /\ Len(sink[uploaded_tables[1]]) = 2
  /\ Len(sink[uploaded_tables[2]]) = 1

====
